---- MODULE Spec2Model ----
(***************************************************************************)
(* The accumulator reduction pipeline of vpic                              *)
(* (_SPUEAR_reduce_accumulators_pipeline_spu, src/unnamed/part_000).       *)
(*                                                                         *)
(* Main storage is a flat sequence of vec_float4 (16 bytes each); every    *)
(* address and size of the source, which is in bytes, is kept in units of  *)
(* one vec_float4.  Each rank has its local store buffers f, g, d and the  *)
(* set of MFC transfers it has issued and that have not completed yet.  A  *)
(* transfer moves its data when it completes, at any time after its issue. *)
(* Single and double precision values are integers small enough for every  *)
(* conversion and sum of the kernel to be exact.                           *)
(*                                                                         *)
(* The kernel is called once for every rank DISTRIBUTE defines, 0 to       *)
(* n_pipeline: ranks below n_pipeline own whole blocks, rank n_pipeline is *)
(* the straggler rank and owns the records that fill no whole block.  The  *)
(* calls run concurrently.  The arrays are laid out with a stride of n     *)
(* rounded up to whole blocks, so that a transfer of a whole block from    *)
(* any record below n stays within the stride of its array.                *)
(*                                                                         *)
(* The Langevin collision operator (src/unnamed/part_001) is the second    *)
(* program of the module, with its own variables and its own specification *)
(* SpecLangevin: langevin() builds the operator, apply_langevin is called  *)
(* once for every time step, and the pipelines it launches run             *)
(* concurrently, one particle at a time.  A momentum is kept as the list   *)
(* of the random numbers that went into it, each named by its stream and   *)
(* its position in the stream: decay*u + drive*mt_frandn(rng) appends one. *)
(***************************************************************************)
EXTENDS Integers, Sequences, FiniteSets, TLC

\* ---------------------------------------------------------------- bounds
MaxN  == 4        \* args->n ranges over 0..MaxN
MaxP  == 2        \* n_pipeline ranges over 1..MaxP
MaxNa == 3        \* args->n_array ranges over 0..MaxNa and MAX_ARRAY+1
MaxNp == 3        \* sp->np ranges over 0..MaxNp
MaxInterval == 2  \* interval ranges over -1..MaxInterval
MaxStep == 2      \* sp->g->step runs from 0 to MaxStep

\* ------------------------------------------------------ program constants
NB        == 2    \* accumulators_n_block; its value is set outside this file, 2 here
MAX_ARRAY == 11
si        == 4    \* sizeof(accumulator_t): jx, jy, jz and a pad vector

VARIABLES
  args,        \* accumulators_pipeline_args_t: n, n_array, s_array
  n_pipeline,  \* number of pipelines; ranks are 0..n_pipeline
  mem,         \* main storage, args->a onwards, one vec_float4 per index
  pc,          \* per rank: position in the kernel
  i0,          \* per rank: i  after DISTRIBUTE (start of the owned range)
  i,           \* per rank: i
  i1,          \* per rank: i1 after "i1 += i" (end of the owned range)
  r,           \* per rank: r
  f, g, d,     \* per rank: the local store buffers
  dma,         \* per rank: the transfers issued and not yet completed
  outcome,     \* per rank: what the call handed back to its caller
  issued,      \* per rank: every mfc_get issued
  arrived,     \* per rank: every mfc_get completed
  waited,      \* per rank: every mfc_get completed and waited on
  puts,        \* per rank: the block of every mfc_put issued, in order
  wrote,       \* per rank: main storage indices its mfc_put have written
  \* the Langevin collision operator
  call,        \* the arguments langevin() is called with
  np,          \* sp->np
  step,        \* sp->g->step
  cop,         \* the collision operators langevin() has returned, none or one
  err,         \* the error langevin() raised
  part,        \* sp->p: per particle ux, uy, uz
  drawn,       \* per rank: how many numbers were drawn from l->rng[rank]
  apc,         \* position in apply_langevin
  lpc,         \* per rank: position in langevin_pipeline
  li,          \* per rank: i  of langevin_pipeline
  li1,         \* per rank: i1 of langevin_pipeline
  entry        \* sp->p and the streams as the latest apply_langevin found them

\* the variables of the reduction kernel, and those of the Langevin operator
kvars == <<args, mem, pc, i0, i, i1, r, f, g, d, dma,
           outcome, issued, arrived, waited, puts, wrote>>

lvars == <<call, np, step, cop, err, part, drawn, apc, lpc, li, li1, entry>>

vars == <<n_pipeline, kvars, lvars>>

Ranks == 0..n_pipeline

\* ------------------------------------------------------------- SPU vectors
\* A vec_float4 is <<e0, e1, e2, e3>>, a vec_double2 is <<e0, e1>>.

\* 2^24: single precision holds every integer below it exactly
FloatExact == 16777216

\* round to nearest single: 24 significant bits are kept
RECURSIVE RoundToSingle(_)
RoundToSingle(x) ==
  IF x < FloatExact THEN x ELSE 2 * RoundToSingle((x + 1) \div 2)

RECURSIVE BitOr(_, _)
BitOr(x, y) ==
  IF x = 0 THEN y
  ELSE IF y = 0 THEN x
  ELSE 2 * BitOr(x \div 2, y \div 2) + (IF x % 2 = 1 \/ y % 2 = 1 THEN 1 ELSE 0)

\* spu_extend: elements 0 and 2 of a vec_float4, as doubles
spu_extend(v) == <<v[1], v[3]>>

\* spu_shuffle(v, v, perm) with perm = {4,5,6,7, 0,1,2,3, 12..15, 8..11}:
\* words 0 and 1 are swapped, words 2 and 3 are swapped
spu_shuffle(v) == <<v[2], v[1], v[4], v[3]>>

\* spu_roundtf: the two doubles rounded to single, in elements 0 and 2
spu_roundtf(w) == <<RoundToSingle(w[1]), 0, RoundToSingle(w[2]), 0>>

spu_or(u, v) == <<BitOr(u[1], v[1]), BitOr(u[2], v[2]),
                  BitOr(u[3], v[3]), BitOr(u[4], v[4])>>

spu_add(u, v) == <<u[1] + v[1], u[2] + v[2]>>

\* ------------------------------------------------------------- DISTRIBUTE
\* The work partitioner: N items in blocks of b among P pipelines; rank P
\* is the straggler and takes the N % b items that fill no whole block.
\* Block k of t = (N/b)/P blocks per pipeline starts at (int)(t*p + 0.5).
\* the items, not the blocks, shared out among the pipelines
BlockStart_Items(N, b, p, P) == (2 * N * p + P) \div (2 * P)

BlockStart(N, b, p, P) == b * ((2 * (N \div b) * p + P) \div (2 * P))

\* the straggler is given nothing
DISTRIBUTE_n_NoStraggler(N, b, p, P) ==
  IF p = P THEN 0
  ELSE BlockStart(N, b, p + 1, P) - BlockStart(N, b, p, P)

DISTRIBUTE_n(N, b, p, P) ==
  IF p = P THEN N % b
  ELSE BlockStart(N, b, p + 1, P) - BlockStart(N, b, p, P)

DISTRIBUTE_i(N, b, p, P) ==
  IF p = P THEN N - DISTRIBUTE_n(N, b, p, P) ELSE BlockStart(N, b, p, P)

\* ---------------------------------------------------------- kernel pieces
\* the check of line 34 left out
TooManyArrays_Never(na) == FALSE

TooManyArrays(na) == na > MAX_ARRAY

NothingToDo(na) == na < 2

\* the initial block is loaded for an empty range too
RangeNonEmpty_Le(x, x1) == x <= x1

\* line 46: i<i1
RangeNonEmpty(x, x1) == x < x1

\* the next block is never loaded
HasNextBlock_Never(x, x1) == FALSE

HasNextBlock(x, x1) == x + NB < x1

\* sa = si*args->s_array
StrideSa(s_array) == si * s_array

\* a + i*si + r*sa, relative to a
GetEA(x, q, sa) == x * si + q * sa

\* every array loaded at f, whatever r
GetLS_Slot0(q) == 0

\* f + 4*NB*r, relative to f
GetLS(q) == 4 * NB * q

\* the reduced block written at a, whatever the block
PutEA_Block0(x) == 0

\* a + i*si, relative to a
PutEA(x) == x * si

\* the first wait of a block with an empty mask
TagMask0_None == {}

\* mfc_write_tag_mask( 1<<0 ), ( 1<<r ), ( 1<<na )
TagMask0 == {0}

\* the wait of the loop over r with the mask of the wait before it, 1<<0
TagMaskR_Tag0(q) == {0}

TagMaskR(q) == {q}

\* the wait before g is written with the mask 1<<0
TagMaskOut_Tag0(na) == {0}

TagMaskOut(na) == {na}

\* the tag the reduced block is written under
PutTag(na) == na

\* mfc_read_tag_status_all returns once no transfer of the masked tags of
\* this rank is outstanding
TagStatusAll(p, mask) == \A t \in dma[p] : t.tag \notin mask

mfc_get(ls, ea, size, tag, blk) ==
  [dir |-> "get", ls |-> ls, ea |-> ea, size |-> size, tag |-> tag, blk |-> blk]

mfc_put(ls, ea, size, tag, blk) ==
  [dir |-> "put", ls |-> ls, ea |-> ea, size |-> size, tag |-> tag, blk |-> blk]

\* the initial block of array 0 alone
PrimeGets_Array0Only(x, na, sa) ==
  {mfc_get(4 * NB * 0, x * si, NB * si, 0, x)}

\* the initial block: for( r=0; r<na; r++ ) mfc_get( f+4*NB*r, ... )
PrimeGets(x, na, sa) ==
  {mfc_get(GetLS(q), GetEA(x, q, sa), NB * si, q, x) : q \in 0..(na - 1)}

\* the block at i loaded again where the block at i+NB is meant
NextGet_SameBlock(x, x1, q, sa) ==
  IF HasNextBlock(x, x1)
  THEN {mfc_get(GetLS(q), GetEA(x, q, sa), NB * si, q, x)}
  ELSE {}

\* the next block of array q, when there is one
NextGet(x, x1, q, sa) ==
  IF HasNextBlock(x, x1)
  THEN {mfc_get(GetLS(q), GetEA(x + NB, q, sa), NB * si, q, x + NB)}
  ELSE {}

\* what local store holds before it is written: one value that stands for
\* any bit pattern and that no value of the arrays equals
Uninit == 0 - 1

\* f[x]
FAt(fp, x) == IF x \in DOMAIN fp THEN fp[x] ELSE <<Uninit, Uninit, Uninit, Uninit>>

\* lines 60-70: array 0's block in f, stored in double precision in d
StoreDouble(fp, dp) ==
  [x \in DOMAIN dp |->
     LET nn == x \div 6
         fv == FAt(fp, 4 * nn + ((x % 6) \div 2))
     IN  IF x % 2 = 0 THEN spu_extend(fv) ELSE spu_extend(spu_shuffle(fv))]

\* AddDouble without k = r*NB: every array is read from the slot of array 0
AddDouble_Slot0(fp, dp, q) ==
  [x \in DOMAIN dp |->
     LET nn == x \div 6
         fv == FAt(fp, 4 * nn + ((x % 6) \div 2))
     IN  IF x % 2 = 0 THEN spu_add(dp[x], spu_extend(fv))
         ELSE spu_add(dp[x], spu_extend(spu_shuffle(fv)))]

\* lines 84-95: array q's block in f, added to d
AddDouble(fp, dp, q) ==
  [x \in DOMAIN dp |->
     LET k  == q * NB
         nn == x \div 6
         fv == FAt(fp, 4 * (k + nn) + ((x % 6) \div 2))
     IN  IF x % 2 = 0 THEN spu_add(dp[x], spu_extend(fv))
         ELSE spu_add(dp[x], spu_extend(spu_shuffle(fv)))]

\* lines 108-115: d rounded to single precision in g; g[4*n+3] is not written
RoundSingle(dp, gp) ==
  [x \in DOMAIN gp |->
     LET nn == x \div 4
         c  == x % 4
     IN  IF c = 3 THEN gp[x]
         ELSE spu_or(spu_roundtf(dp[6 * nn + 2 * c]),
                     spu_shuffle(spu_roundtf(dp[6 * nn + 2 * c + 1])))]

\* ------------------------------------------------------------ the inputs
\* smallest whole number of blocks holding n records
RoundUp(x) == NB * ((x + NB - 1) \div NB)

NaSet == (0..MaxNa) \cup {MAX_ARRAY + 1}

\* element l of vector c of record x of array q: every array, record, field
\* and element has its own value; record 0 holds 1, 2, 3, ... in its first
\* element
Val(q, x, c, l) == (q + 1) * (1 + 16 * x + 4 * c + (l - 1))

InitialMem(a) ==
  [m \in 0..(si * a.n_array * a.s_array - 1) |->
     LET q == m \div (si * a.s_array)
         x == (m % (si * a.s_array)) \div si
         c == m % si
     IN  <<Val(q, x, c, 1), Val(q, x, c, 2), Val(q, x, c, 3), Val(q, x, c, 4)>>]

\* SPU_MALLOC( f, 4*NB*MAX_ARRAY ), ( g, 4*NB ), ( d, 6*NB ): not initialised
\* f is kept as the vectors of it that a transfer has written; FAt gives
\* the content of any of its 4*NB*MAX_ARRAY vectors
MallocF == [x \in {} |-> <<Uninit, Uninit, Uninit, Uninit>>]

MallocG == [x \in 0..(4 * NB - 1) |-> <<Uninit, Uninit, Uninit, Uninit>>]

MallocD == [x \in 0..(6 * NB - 1) |-> <<Uninit, Uninit>>]

NULL == "NULL"

\* no Langevin operator is built while the kernel is looked at
NoLangevin ==
  /\ call = [sp |-> NULL, rng |-> NULL, kT |-> 0, nu |-> 0, interval |-> 0]
  /\ np = 0
  /\ step = 0
  /\ cop = <<>>
  /\ err = "none"
  /\ part = <<>>
  /\ drawn = [p \in Ranks |-> 0]
  /\ apc = "idle"
  /\ lpc = [p \in Ranks |-> "none"]
  /\ li = [p \in Ranks |-> 0]
  /\ li1 = [p \in Ranks |-> 0]
  /\ entry = [part |-> part, drawn |-> drawn]

Init ==
  /\ n_pipeline \in 1..MaxP
  /\ \E nrec \in 0..MaxN, na \in NaSet :
       args = [n |-> nrec, n_array |-> na, s_array |-> RoundUp(nrec)]
  /\ mem = InitialMem(args)
  /\ pc = [p \in Ranks |-> "idle"]
  /\ i0 = [p \in Ranks |-> 0]
  /\ i = [p \in Ranks |-> 0]
  /\ i1 = [p \in Ranks |-> 0]
  /\ r = [p \in Ranks |-> 0]
  /\ f = [p \in Ranks |-> <<>>]
  /\ g = [p \in Ranks |-> <<>>]
  /\ d = [p \in Ranks |-> <<>>]
  /\ dma = [p \in Ranks |-> {}]
  /\ outcome = [p \in Ranks |-> "none"]
  /\ issued = [p \in Ranks |-> {}]
  /\ arrived = [p \in Ranks |-> {}]
  /\ waited = [p \in Ranks |-> {}]
  /\ puts = [p \in Ranks |-> <<>>]
  /\ wrote = [p \in Ranks |-> {}]
  /\ NoLangevin

\* ------------------------------------------------------------ the kernel
\* the loop runs once more, for the block that starts at i1
LoopTest_Le(x, x1) == x <= x1

\* lines 51 and 118: for( ; i<i1; i+=NB )
LoopTest(x, x1) == x < x1

\* lines 26-51: the range of the rank, the two checks of na, the buffers,
\* the loads of the initial block and the first test of the loop
Call(p) ==
  /\ pc[p] = "idle"
  /\ LET x   == DISTRIBUTE_i(args.n, NB, p, n_pipeline)
         x1  == DISTRIBUTE_n(args.n, NB, p, n_pipeline) + x
         run == ~TooManyArrays(args.n_array) /\ ~NothingToDo(args.n_array)
         new == IF run /\ RangeNonEmpty(x, x1)
                THEN PrimeGets(x, args.n_array, StrideSa(args.s_array))
                ELSE {}
     IN  /\ i0' = [i0 EXCEPT ![p] = x]
         /\ i' = [i EXCEPT ![p] = x]
         /\ i1' = [i1 EXCEPT ![p] = x1]
         /\ IF run
            THEN /\ f' = [f EXCEPT ![p] = MallocF]
                 /\ g' = [g EXCEPT ![p] = MallocG]
                 /\ d' = [d EXCEPT ![p] = MallocD]
            ELSE UNCHANGED <<f, g, d>>
         /\ dma' = [dma EXCEPT ![p] = @ \cup new]
         /\ issued' = [issued EXCEPT ![p] = @ \cup new]
         /\ IF run /\ LoopTest(x, x1)
            THEN pc' = [pc EXCEPT ![p] = "wait0"] /\ UNCHANGED outcome
            ELSE /\ pc' = [pc EXCEPT ![p] = "done"]
                 /\ outcome' = [outcome EXCEPT ![p] = "returned"]
  /\ UNCHANGED <<args, n_pipeline, mem, r, arrived, waited, puts, wrote>>

\* lines 57-72: wait for tag 0, store array 0 in d, load its next block
Wait0(p) ==
  /\ pc[p] = "wait0"
  /\ TagStatusAll(p, TagMask0)
  /\ waited' = [waited EXCEPT ![p] = @ \cup {t \in arrived[p] : t.tag \in TagMask0}]
  /\ d' = [d EXCEPT ![p] = StoreDouble(f[p], d[p])]
  /\ LET new == NextGet(i[p], i1[p], 0, StrideSa(args.s_array))
     IN  /\ dma' = [dma EXCEPT ![p] = @ \cup new]
         /\ issued' = [issued EXCEPT ![p] = @ \cup new]
  /\ r' = [r EXCEPT ![p] = 1]
  /\ pc' = [pc EXCEPT ![p] = IF 1 < args.n_array THEN "waitr" ELSE "waitout"]
  /\ UNCHANGED <<args, n_pipeline, mem, i0, i, i1, f, g, outcome,
                 arrived, puts, wrote>>

\* lines 79-98, one turn: wait for tag r, add array r to d, load its next block
WaitR(p) ==
  /\ pc[p] = "waitr"
  /\ TagStatusAll(p, TagMaskR(r[p]))
  /\ waited' = [waited EXCEPT ![p] = @ \cup {t \in arrived[p] : t.tag \in TagMaskR(r[p])}]
  /\ d' = [d EXCEPT ![p] = AddDouble(f[p], d[p], r[p])]
  /\ LET new == NextGet(i[p], i1[p], r[p], StrideSa(args.s_array))
     IN  /\ dma' = [dma EXCEPT ![p] = @ \cup new]
         /\ issued' = [issued EXCEPT ![p] = @ \cup new]
  /\ r' = [r EXCEPT ![p] = @ + 1]
  /\ pc' = [pc EXCEPT ![p] = IF r[p] + 1 < args.n_array THEN "waitr" ELSE "waitout"]
  /\ UNCHANGED <<args, n_pipeline, mem, i0, i, i1, f, g, outcome,
                 arrived, puts, wrote>>

\* lines 105-118: wait for the output tag, round d into g, write g out,
\* step to the next block
WaitOut(p) ==
  /\ pc[p] = "waitout"
  /\ TagStatusAll(p, TagMaskOut(args.n_array))
  /\ g' = [g EXCEPT ![p] = RoundSingle(d[p], g[p])]
  /\ dma' = [dma EXCEPT ![p] =
               @ \cup {mfc_put(0, PutEA(i[p]), NB * si, PutTag(args.n_array), i[p])}]
  /\ puts' = [puts EXCEPT ![p] = Append(@, i[p])]
  /\ i' = [i EXCEPT ![p] = @ + NB]
  /\ IF LoopTest(i[p] + NB, i1[p])
     THEN pc' = [pc EXCEPT ![p] = "wait0"] /\ UNCHANGED outcome
     ELSE /\ pc' = [pc EXCEPT ![p] = "done"]
          /\ outcome' = [outcome EXCEPT ![p] = "returned"]
  /\ UNCHANGED <<args, n_pipeline, mem, i0, i1, r, f, d, issued,
                 arrived, waited, wrote>>

\* ---------------------------------------------------------------- the MFC
\* an inbound transfer completes: main storage is copied into f
GetComplete(p, t) ==
  /\ t \in dma[p]
  /\ t.dir = "get"
  /\ f' = [f EXCEPT ![p] =
             [x \in DOMAIN @ \cup (t.ls..(t.ls + t.size - 1)) |->
                IF x >= t.ls /\ x < t.ls + t.size THEN mem[t.ea + (x - t.ls)]
                ELSE @[x]]]
  /\ dma' = [dma EXCEPT ![p] = @ \ {t}]
  /\ arrived' = [arrived EXCEPT ![p] = @ \cup {t}]
  /\ UNCHANGED <<args, n_pipeline, mem, pc, i0, i, i1, r, g, d,
                 outcome, issued, waited, puts, wrote>>

\* an outbound transfer completes: g is copied into main storage
PutComplete(p, t) ==
  /\ t \in dma[p]
  /\ t.dir = "put"
  /\ mem' = [m \in DOMAIN mem |->
               IF m >= t.ea /\ m < t.ea + t.size THEN g[p][t.ls + (m - t.ea)]
               ELSE mem[m]]
  /\ wrote' = [wrote EXCEPT ![p] = @ \cup {m \in DOMAIN mem : m >= t.ea /\ m < t.ea + t.size}]
  /\ dma' = [dma EXCEPT ![p] = @ \ {t}]
  /\ UNCHANGED <<args, n_pipeline, pc, i0, i, i1, r, f, g, d,
                 outcome, issued, arrived, waited, puts>>

Next ==
  \/ \E p \in Ranks : Call(p) /\ UNCHANGED lvars
  \/ \E p \in Ranks : Wait0(p) /\ UNCHANGED lvars
  \/ \E p \in Ranks : WaitR(p) /\ UNCHANGED lvars
  \/ \E p \in Ranks : WaitOut(p) /\ UNCHANGED lvars
  \/ \E p \in Ranks : \E t \in dma[p] : GetComplete(p, t) /\ UNCHANGED lvars
  \/ \E p \in Ranks : \E t \in dma[p] : PutComplete(p, t) /\ UNCHANGED lvars

Spec == Init /\ [][Next]_vars

\* ------------------------------------------------- the Langevin operator
\* the check of nu left out
BadArgs_NoNu(sp, rng, kT, nu) == sp = NULL \/ rng = NULL \/ kT < 0

\* line 125: !sp || !rng || kT<0 || nu<0
BadArgs(sp, rng, kT, nu) == sp = NULL \/ rng = NULL \/ kT < 0 \/ nu < 0

\* lines 127-132: the langevin_t of the operator
langevin_t(sp, rng, kT, nu, interval) ==
  [sp |-> sp, rng |-> rng, kT |-> kT, nu |-> nu, interval |-> interval]

\* the collision operator made of the parameters and the four functions
new_collision_op_internal(l) ==
  [params |-> l, apply |-> "apply_langevin", delete |-> "delete_langevin",
   checkpt |-> "checkpt_langevin", restore |-> "restore_langevin"]

\* the step left out of the test
SkipStep_AnyStep(interval, s) == interval < 1

\* line 86: l->interval<1 || (l->sp->g->step % l->interval)
SkipStep(interval, s) == interval < 1 \/ s % interval # 0

\* line 72: (int)( 0.5 + n_target*pipeline_rank ), n_target = np/n_pipeline;
\* for the pipeline counts looked at, the doubles of the source round where
\* the exact quotient does
RangeStart(n, rank, P) == (2 * n * rank + P) \div (2 * P)

\* every rank runs to the last particle
RangeEnd_Last(n, rank, P) == n

\* line 73: (int)( 0.5 + n_target*(pipeline_rank+1) )
RangeEnd(n, rank, P) == (2 * n * (rank + 1) + P) \div (2 * P)

\* line 75: pipeline_rank==n_pipeline
HostStraggler(rank, P) == rank = P

\* lines 78-80: decay*u + drive*mt_frandn(rng), the k-th number of the
\* stream of the rank
Kick(u, rank, k) == Append(u, <<rank, k>>)

\* the reduction kernel is not run while the operator is looked at
NoKernel ==
  /\ args = [n |-> 0, n_array |-> 0, s_array |-> 0]
  /\ mem = <<>>
  /\ pc = [p \in Ranks |-> "idle"]
  /\ i0 = [p \in Ranks |-> 0]
  /\ i = [p \in Ranks |-> 0]
  /\ i1 = [p \in Ranks |-> 0]
  /\ r = [p \in Ranks |-> 0]
  /\ f = [p \in Ranks |-> <<>>]
  /\ g = [p \in Ranks |-> <<>>]
  /\ d = [p \in Ranks |-> <<>>]
  /\ dma = [p \in Ranks |-> {}]
  /\ outcome = [p \in Ranks |-> "none"]
  /\ issued = [p \in Ranks |-> {}]
  /\ arrived = [p \in Ranks |-> {}]
  /\ waited = [p \in Ranks |-> {}]
  /\ puts = [p \in Ranks |-> <<>>]
  /\ wrote = [p \in Ranks |-> {}]

InitLangevin ==
  /\ n_pipeline \in 1..MaxP
  /\ call \in [sp : {NULL, "sp"}, rng : {NULL, "rng"}, kT : {0 - 1, 0, 1},
               nu : {0 - 1, 0, 1}, interval : (0 - 1)..MaxInterval]
  /\ np \in (IF call.sp = NULL THEN {0} ELSE 0..MaxNp)
  /\ step = 0
  /\ cop = <<>>
  /\ err = "none"
  /\ part = [x \in 0..(np - 1) |-> [ux |-> <<>>, uy |-> <<>>, uz |-> <<>>]]
  /\ drawn = [p \in Ranks |-> 0]
  /\ apc = "idle"
  /\ lpc = [p \in Ranks |-> "none"]
  /\ li = [p \in Ranks |-> 0]
  /\ li1 = [p \in Ranks |-> 0]
  /\ entry = [part |-> part, drawn |-> drawn]
  /\ NoKernel

\* lines 117-139: langevin(); ERROR ends the program
Langevin ==
  /\ cop = <<>> /\ err = "none"
  /\ IF BadArgs(call.sp, call.rng, call.kT, call.nu)
     THEN err' = "Bad args" /\ UNCHANGED cop
     ELSE /\ cop' = <<new_collision_op_internal(
                        langevin_t(call.sp, call.rng, call.kT, call.nu, call.interval))>>
          /\ UNCHANGED err
  /\ UNCHANGED <<call, np, step, part, drawn, apc, lpc, li, li1, entry>>
  /\ UNCHANGED <<n_pipeline, kvars>>

\* lines 85-87: apply_langevin up to EXEC_PIPELINES, which hands
\* langevin_pipeline to pipelines 0..n_pipeline-1 and to the host as rank
\* n_pipeline
ApplyLangevin ==
  /\ cop # <<>> /\ apc = "idle"
  /\ entry' = [part |-> part, drawn |-> drawn]
  /\ IF SkipStep(cop[1].params.interval, step)
     THEN apc' = "returned" /\ UNCHANGED lpc
     ELSE apc' = "wait" /\ lpc' = [p \in Ranks |-> "ready"]
  /\ UNCHANGED <<call, np, step, cop, err, part, drawn, li, li1>>
  /\ UNCHANGED <<n_pipeline, kvars>>

\* lines 71-77: the range of the rank, the return of the host and the first
\* test of the loop
PipelineStart(rank) ==
  /\ lpc[rank] = "ready"
  /\ LET x  == RangeStart(np, rank, n_pipeline)
         x1 == RangeEnd(np, rank, n_pipeline)
     IN  /\ li' = [li EXCEPT ![rank] = x]
         /\ li1' = [li1 EXCEPT ![rank] = x1]
         /\ lpc' = [lpc EXCEPT ![rank] =
                      IF HostStraggler(rank, n_pipeline) \/ ~(x < x1)
                      THEN "done" ELSE "loop"]
  /\ UNCHANGED <<call, np, step, cop, err, part, drawn, apc, entry>>
  /\ UNCHANGED <<n_pipeline, kvars>>

\* lines 77-81, one turn of the loop
PipelineStep(rank) ==
  /\ lpc[rank] = "loop"
  /\ part' = [part EXCEPT ![li[rank]] =
                [ux |-> Kick(@.ux, rank, drawn[rank]),
                 uy |-> Kick(@.uy, rank, drawn[rank] + 1),
                 uz |-> Kick(@.uz, rank, drawn[rank] + 2)]]
  /\ drawn' = [drawn EXCEPT ![rank] = @ + 3]
  /\ li' = [li EXCEPT ![rank] = @ + 1]
  /\ lpc' = [lpc EXCEPT ![rank] = IF li[rank] + 1 < li1[rank] THEN "loop" ELSE "done"]
  /\ UNCHANGED <<call, np, step, cop, err, apc, li1, entry>>
  /\ UNCHANGED <<n_pipeline, kvars>>

\* line 88: WAIT_PIPELINES returns when every pipeline has
WaitPipelines ==
  /\ apc = "wait"
  /\ \A rank \in Ranks : lpc[rank] = "done"
  /\ apc' = "returned"
  /\ UNCHANGED <<call, np, step, cop, err, part, drawn, lpc, li, li1, entry>>
  /\ UNCHANGED <<n_pipeline, kvars>>

\* the time step ends; the operator is applied again in the next one
NextStep ==
  /\ apc = "returned"
  /\ step < MaxStep
  /\ step' = step + 1
  /\ apc' = "idle"
  /\ lpc' = [p \in Ranks |-> "none"]
  /\ UNCHANGED <<call, np, cop, err, part, drawn, li, li1, entry>>
  /\ UNCHANGED <<n_pipeline, kvars>>

NextLangevin ==
  \/ Langevin
  \/ ApplyLangevin
  \/ \E rank \in Ranks : PipelineStart(rank)
  \/ \E rank \in Ranks : PipelineStep(rank)
  \/ WaitPipelines
  \/ NextStep

SpecLangevin == InitLangevin /\ [][NextLangevin]_vars

\* ------------------------------------------------------------- fairness
\* the steps of the kernel of rank p, and the completions of its transfers
RankStep(p) ==
  /\ p \in Ranks
  /\ Call(p) \/ Wait0(p) \/ WaitR(p) \/ WaitOut(p)
  /\ UNCHANGED lvars

TransferStep(p) ==
  /\ p \in Ranks
  /\ \E t \in dma[p] : GetComplete(p, t) \/ PutComplete(p, t)
  /\ UNCHANGED lvars

\* every SPU goes on with its kernel whenever the kernel can take a step,
\* and the MFC of every SPU completes the transfers it was given
FairSpec ==
  /\ Spec
  /\ \A p \in 0..MaxP : WF_vars(RankStep(p)) /\ WF_vars(TransferStep(p))

\* ------------------------------------------------------------- the claims
ValidNa == args.n_array >= 2 /\ args.n_array <= MAX_ARRAY

OutstandingPuts(p) == {t \in dma[p] : t.dir = "put"}

\* main storage index of vector c of record x of array q
IndexOf(q, x, c) == si * (q * args.s_array + x) + c

\* element l of vector c of record x, summed over arrays 0, 1, ..., q in
\* that order, of the values the arrays held when the call started
RECURSIVE SumArrays(_, _, _, _)
SumArrays(q, x, c, l) ==
  IF q = 0 THEN Val(0, x, c, l)
  ELSE SumArrays(q - 1, x, c, l) + Val(q, x, c, l)

\* what d holds when the block starting at record b has been reduced
ExpectedD(b) ==
  [y \in 0..(6 * NB - 1) |->
     LET x == b + (y \div 6)
         c == (y % 6) \div 2
         h == y % 2
     IN  <<SumArrays(args.n_array - 1, x, c, 1 + h),
           SumArrays(args.n_array - 1, x, c, 3 + h)>>]

\* C1: for 2 <= na <= MAX_ARRAY and a rank whose owned range is a whole
\* number of blocks, once the rank has returned and its last outbound
\* transfer has completed, every field of every record of its owned range
\* in array 0 is the sum, in array order, of the values the record held in
\* the na arrays when the call started.
C1_ReducedSum ==
  \A p \in Ranks :
    (/\ pc[p] = "done"
     /\ dma[p] = {}
     /\ ValidNa
     /\ (i1[p] - i0[p]) % NB = 0)
    => \A x \in i0[p]..(i1[p] - 1), c \in 0..2, l \in 1..4 :
         mem[IndexOf(0, x, c)][l] = SumArrays(args.n_array - 1, x, c, l)

\* a rank that reduced two blocks of three arrays has returned, its writes
\* are complete, and record 0 (1, 2 and 3 in the three arrays) holds 6
C1_Witness ==
  \E p \in Ranks :
    /\ pc[p] = "done" /\ dma[p] = {}
    /\ args.n_array = 3
    /\ i0[p] = 0 /\ i1[p] = 2 * NB
    /\ mem[0][1] = 6

\* C2: when the outbound transfer of a block is issued, d holds for every
\* record of that block the contribution of each of the na arrays for that
\* block exactly once (d is not written between the issue of the transfer
\* and the next wait on tag 0).
C2_EachArrayOnce ==
  \A p \in Ranks :
    (Len(puts[p]) > 0 /\ pc[p] \in {"wait0", "done"})
    => d[p] = ExpectedD(puts[p][Len(puts[p])])

\* the outbound transfer of the second block of a rank has just been issued
C2_Witness ==
  \E p \in Ranks :
    /\ Len(puts[p]) = 2 /\ pc[p] = "done"
    /\ args.n_array = 3
    /\ OutstandingPuts(p) # {}

\* C3: the outbound transfer of block b is issued only after the inbound
\* transfers of block b of all na arrays have been issued, have completed
\* and have been waited on by the rank.
C3_PutAfterGets ==
  [][\A p \in Ranks :
       Len(puts'[p]) > Len(puts[p])
       => \A q \in 0..(args.n_array - 1) :
            \E t \in waited[p] :
              /\ t.tag = q /\ t.blk = puts'[p][Len(puts'[p])]
              /\ t \in issued[p] /\ t \in arrived[p]]_vars

\* the outbound transfer of a block after the first has been issued
C3_Witness ==
  \E p \in Ranks :
    /\ Len(puts[p]) = 2
    /\ args.n_array = 3
    /\ \E t \in waited[p] : t.tag = 2 /\ t.blk = puts[p][2]

\* C4: at most one outbound transfer of a rank is outstanding, and the rank
\* neither writes g nor issues an outbound transfer while one is.
C4_OneOutstandingPut ==
  /\ [](\A p \in Ranks : Cardinality(OutstandingPuts(p)) <= 1)
  /\ [][\A p \in Ranks :
          (g'[p] # g[p] \/ Len(puts'[p]) > Len(puts[p]))
          => OutstandingPuts(p) = {}]_vars

\* a rank stands at the wait on the output tag while the write of its
\* previous block is still outstanding
C4_Witness ==
  \E p \in Ranks :
    /\ pc[p] = "waitout"
    /\ Len(puts[p]) = 1
    /\ OutstandingPuts(p) # {}

\* the records DISTRIBUTE gives rank p of P when N records go in blocks of b
RangeOf(N, b, p, P) ==
  {x \in 0..(MaxN + NB) :
     /\ x >= DISTRIBUTE_i(N, b, p, P)
     /\ x < DISTRIBUTE_i(N, b, p, P) + DISTRIBUTE_n(N, b, p, P)}

\* C5: the ranges DISTRIBUTE gives ranks 0..P are pairwise disjoint and
\* their union is [0, n), for the block size of the kernel and for every
\* other block size (args and n_pipeline never change, so this is looked at
\* before the first call), and the range a rank computed on entry is that
\* range.
C5_Partition ==
  /\ (\A p \in Ranks : pc[p] = "idle") =>
     \A b \in 1..(MaxN + 1) :
       /\ \A x \in 0..(args.n - 1) :
            Cardinality({p \in Ranks : x \in RangeOf(args.n, b, p, n_pipeline)}) = 1
       /\ \A p \in Ranks : RangeOf(args.n, b, p, n_pipeline) \subseteq 0..(args.n - 1)
  /\ \A p \in Ranks :
       pc[p] # "idle" =>
         RangeOf(args.n, NB, p, n_pipeline) = {x \in 0..(MaxN + NB) : x >= i0[p] /\ x < i1[p]}

\* every rank has computed its range and n is not a multiple of the block
\* size: the straggler rank owns the trailing partial block
C5_Witness ==
  /\ \A p \in Ranks : pc[p] # "idle"
  /\ args.n % NB # 0
  /\ n_pipeline = 2
  /\ i1[n_pipeline] - i0[n_pipeline] = args.n % NB
  /\ i0[0] < i1[0]

\* the records of its array that transfer t covers
RecordsOf(t) ==
  {(m - t.tag * StrideSa(args.s_array)) \div si : m \in t.ea..(t.ea + t.size - 1)}

C8_NoOp ==
  ~ValidNa =>
    /\ \A p \in Ranks : issued[p] = {} /\ puts[p] = <<>> /\ dma[p] = {}
    /\ mem = InitialMem(args)

\* a rank with a non-empty range has returned from a call with
\* na = MAX_ARRAY + 1
C8_Witness ==
  \E p \in Ranks :
    /\ pc[p] = "done"
    /\ args.n_array > MAX_ARRAY
    /\ i0[p] < i1[p]

\* C9: a call with na > MAX_ARRAY ends with an error outcome, which the
\* caller can tell from the outcome of a call that returned.
C9_ErrorOutcome ==
  \A p \in Ranks :
    (pc[p] = "done" /\ args.n_array > MAX_ARRAY) => outcome[p] = "error"

\* the ranks one after another, each reducing its blocks one after another
RECURSIVE SumMem(_, _, _, _, _)
SumMem(m, q, x, c, l) ==
  IF q = 0 THEN m[IndexOf(0, x, c)][l]
  ELSE SumMem(m, q - 1, x, c, l) + m[IndexOf(q, x, c)][l]

ReduceBlock(m, b) ==
  [idx \in DOMAIN m |->
     IF idx >= si * b /\ idx < si * (b + NB)
     THEN LET x == idx \div si
              c == idx % si
          IN  IF c = 3 THEN <<Uninit, Uninit, Uninit, Uninit>>
              ELSE [l \in 1..4 |-> SumMem(m, args.n_array - 1, x, c, l)]
     ELSE m[idx]]

RECURSIVE SerialRank(_, _, _)
SerialRank(m, x, x1) ==
  IF x < x1 THEN SerialRank(ReduceBlock(m, x), x + NB, x1) ELSE m

RECURSIVE SerialRun(_, _, _)
SerialRun(m, p, P) ==
  IF p > P THEN m
  ELSE SerialRun(SerialRank(m, DISTRIBUTE_i(args.n, NB, p, P),
                            DISTRIBUTE_i(args.n, NB, p, P) + DISTRIBUTE_n(args.n, NB, p, P)),
                 p + 1, P)

AllDone == \A p \in Ranks : pc[p] = "done" /\ dma[p] = {}

\* C10: when every rank has returned and every transfer has completed,
\* array 0 holds what the ranks leave when they run one after another, and
\* that is the same for every rank count.
C10_SameAsSerial ==
  (AllDone /\ ValidNa) =>
    \A P \in 1..MaxP :
      \A idx \in 0..(si * args.s_array - 1) :
        mem[idx] = SerialRun(InitialMem(args), 0, P)[idx]

\* two pipelines, each owning one block, and the straggler have run
\* concurrently to the end
C10_Witness ==
  /\ AllDone
  /\ n_pipeline = 2
  /\ args.n_array = 3
  /\ i0[0] < i1[0] /\ i0[1] < i1[1]
  /\ mem[0][1] = 6

\* C11: for every block size, every rank below P (the tail of n % b records
\* goes to rank P) has a start and a length that are multiples of the block
\* size; when P exceeds n \div b at least P - n \div b of these ranks have an
\* empty range, and the ranges still cover [0, n).  The range a rank of the
\* kernel computed on entry is block-aligned in the same way.
C11_BlockAligned ==
  /\ (\A p \in Ranks : pc[p] = "idle") =>
     \A b \in 1..(MaxN + 1) :
       /\ \A p \in 0..(n_pipeline - 1) :
            /\ DISTRIBUTE_i(args.n, b, p, n_pipeline) % b = 0
            /\ DISTRIBUTE_n(args.n, b, p, n_pipeline) >= 0
            /\ DISTRIBUTE_n(args.n, b, p, n_pipeline) % b = 0
       /\ n_pipeline > args.n \div b =>
            /\ Cardinality({p \in 0..(n_pipeline - 1) :
                              DISTRIBUTE_n(args.n, b, p, n_pipeline) = 0})
                 >= n_pipeline - args.n \div b
            /\ UNION {RangeOf(args.n, b, p, n_pipeline) : p \in Ranks}
                 = 0..(args.n - 1)
  /\ \A p \in 0..(n_pipeline - 1) :
       pc[p] # "idle" =>
         /\ i0[p] % NB = 0
         /\ i1[p] >= i0[p]
         /\ (i1[p] - i0[p]) % NB = 0

\* two pipelines and a single whole block: rank 0 owns the block, rank 1 has
\* computed an empty range, the straggler rank owns the odd record
C11_Witness ==
  /\ \A p \in Ranks : pc[p] # "idle"
  /\ n_pipeline = 2
  /\ args.n = 3
  /\ i1[0] - i0[0] = NB
  /\ i0[1] = i1[1]
  /\ i1[2] - i0[2] = 1

\* the operator is due at this step: interval is at least 1 and the step is
\* a multiple of it
Due ==
  /\ cop # <<>>
  /\ cop[1].params.interval >= 1
  /\ step % cop[1].params.interval = 0

\* C12: apply_langevin launches the pipelines if and only if interval >= 1
\* and the step is a multiple of interval: pipelines exist only in such a
\* step and have all run when apply_langevin returns from one; when it
\* returns from any other step no pipeline was launched and the momenta and
\* the random number streams are as they were when it was called.
C12_AppliedIffDue ==
  /\ (\E rank \in Ranks : lpc[rank] # "none") => Due
  /\ (apc = "returned" /\ Due) => \A rank \in Ranks : lpc[rank] = "done"
  /\ (apc = "returned" /\ ~Due) =>
       /\ \A rank \in Ranks : lpc[rank] = "none"
       /\ part = entry.part
       /\ drawn = entry.drawn

\* interval is 2: the operator was applied in step 0 and apply_langevin has
\* returned from step 1 without touching the particles
C12_Witness ==
  /\ apc = "returned"
  /\ step = 1
  /\ cop # <<>> /\ cop[1].params.interval = 2
  /\ np >= 2
  /\ \A x \in 0..(np - 1) : Len(part[x].ux) = 1

\* the particles langevin_pipeline gives rank of P when there are n
LangevinRange(n, rank, P) ==
  {x \in 0..(n - 1) : x >= RangeStart(n, rank, P) /\ x < RangeEnd(n, rank, P)}

\* u is u0 with one more random number, drawn by a pipeline below P
OneKick(u, u0, P) ==
  /\ Len(u) = Len(u0) + 1
  /\ SubSeq(u, 1, Len(u0)) = u0
  /\ u[Len(u)][1] \in 0..(P - 1)

\* C13: the ranges of ranks 0..P-1 are pairwise disjoint, lie within
\* [0, np) and cover it, for every np and P (looked at before langevin() is
\* called, for np up to 2*MaxNp and P up to MaxP+2); when apply_langevin
\* returns from a step the operator is due at, every momentum component of
\* every particle has been updated exactly once, by a pipeline below P; the
\* host rank P draws no random number; and no pipeline is still running
\* when apply_langevin has returned.
C13_EachParticleOnce ==
  /\ (cop = <<>> /\ err = "none") =>
       \A n \in 0..(2 * MaxNp), P \in 1..(MaxP + 2) :
         /\ \A x \in 0..(n - 1) :
              Cardinality({rank \in 0..(P - 1) : x \in LangevinRange(n, rank, P)}) = 1
         /\ \A rank \in 0..(P - 1) :
              /\ RangeStart(n, rank, P) >= 0
              /\ RangeStart(n, rank, P) <= RangeEnd(n, rank, P)
              /\ RangeEnd(n, rank, P) <= n
  /\ (apc = "returned" /\ Due) =>
       \A x \in 0..(np - 1) :
         /\ OneKick(part[x].ux, entry.part[x].ux, n_pipeline)
         /\ OneKick(part[x].uy, entry.part[x].uy, n_pipeline)
         /\ OneKick(part[x].uz, entry.part[x].uz, n_pipeline)
  /\ apc = "wait" =>
       \A x \in 0..(np - 1) : Len(part[x].ux) <= Len(entry.part[x].ux) + 1
  /\ drawn[n_pipeline] = 0
  /\ apc = "returned" => \A rank \in Ranks : lpc[rank] \in {"none", "done"}

\* three particles and two pipelines, interval 1: apply_langevin has
\* returned from step 1; rank 0 has updated particles 0 and 1 and rank 1
\* particle 2, in step 0 and again in step 1
C13_Witness ==
  /\ apc = "returned"
  /\ step = 1
  /\ n_pipeline = 2
  /\ np = 3
  /\ part[0].ux = <<<<0, 0>>, <<0, 6>>>>
  /\ part[1].uz = <<<<0, 5>>, <<0, 11>>>>
  /\ part[2].ux = <<<<1, 0>>, <<1, 3>>>>
  /\ \A rank \in Ranks : lpc[rank] = "done"

\* C14: once langevin() has been called, either sp or rng is null or kT or
\* nu is negative, the error "Bad args" was raised, no operator exists and
\* none is ever applied; or the arguments are valid, no error was raised and
\* the one operator returned has exactly sp, rng, kT, nu and interval as its
\* parameters, whatever the interval.
C14_BadArgsOrOperator ==
  (cop # <<>> \/ err # "none") =>
    IF call.sp = NULL \/ call.rng = NULL \/ call.kT < 0 \/ call.nu < 0
    THEN /\ err = "Bad args"
         /\ cop = <<>>
         /\ apc = "idle"
         /\ \A rank \in Ranks : lpc[rank] = "none"
    ELSE /\ err = "none"
         /\ Len(cop) = 1
         /\ cop[1].params.sp = call.sp
         /\ cop[1].params.rng = call.rng
         /\ cop[1].params.kT = call.kT
         /\ cop[1].params.nu = call.nu
         /\ cop[1].params.interval = call.interval
         /\ cop[1].apply = "apply_langevin"

\* langevin() was called with a species, streams, kT = 0 and a negative nu:
\* the error was raised and there is no operator
C14_Witness ==
  /\ err = "Bad args"
  /\ cop = <<>>
  /\ call.sp # NULL /\ call.rng # NULL
  /\ call.kT = 0
  /\ call.nu < 0
  /\ call.interval < 1

\* the vectors of f that transfer t writes
Covers(t) == t.ls..(t.ls + t.size - 1)

\* the vectors of f the kernel reads for array q: f[4*(k+n)+c], k = q*NB
SlotRead(q) == {4 * (q * NB + n) + c : n \in 0..(NB - 1), c \in 0..2}

\* rank p reads the slot of array q in this step
Reads(p, q) ==
  \/ q = 0 /\ pc[p] = "wait0" /\ pc'[p] # "wait0"
  \/ q > 0 /\ pc[p] = "waitr" /\ r[p] = q /\ r'[p] = q + 1

\* C15: when a rank issues an inbound transfer, every other inbound transfer
\* it has issued into vectors of f the new one writes has completed and has
\* been waited on and read; and when a rank reads the slot of array q for
\* block i, no inbound transfer into that slot is outstanding and the block
\* i of array q has arrived in it.
C15_SlotDiscipline ==
  [][\A p \in Ranks :
       /\ \A t \in issued'[p] \ issued[p] :
            \A u \in issued'[p] \ {t} :
              Covers(u) \cap Covers(t) # {} => u \in waited'[p]
       /\ \A q \in 0..(args.n_array - 1) :
            Reads(p, q) =>
              /\ \A t \in dma[p] :
                   t.dir = "get" => Covers(t) \cap SlotRead(q) = {}
              /\ \E u \in arrived[p] :
                   /\ u.tag = q /\ u.blk = i[p]
                   /\ SlotRead(q) \subseteq Covers(u)]_vars

\* the second block of the last of three arrays was loaded into its slot
\* after the first was read, has arrived and has been waited on
C15_Witness ==
  \E p \in Ranks :
    /\ args.n_array = 3
    /\ i1[p] - i0[p] = 2 * NB
    /\ \E t \in waited[p] : t.tag = 2 /\ t.blk = i0[p] + NB /\ t.ls = 4 * NB * 2
    /\ \E t \in waited[p] : t.tag = 2 /\ t.blk = i0[p] /\ t.ls = 4 * NB * 2

\* rank p has loaded its initial block and has not entered the loop body yet
BeforeLoop(p) == pc[p] = "wait0" /\ i[p] = i0[p]

\* the statement of C16 as the specification has it: before the block loop
\* starts a rank with a non-empty range has issued the inbound transfer of
\* the first block of array 0 and of no other array
C16_PrimeArray0Only ==
  \A p \in Ranks :
    BeforeLoop(p) =>
      /\ \E t \in issued[p] : t.tag = 0 /\ t.blk = i0[p]
      /\ \A t \in issued[p] : t.ea < StrideSa(args.s_array)

\* C16: before the block loop starts, a rank with a non-empty range and
\* 2 <= na <= MAX_ARRAY has issued exactly na inbound transfers, one for the
\* first block of every array q in 0..na-1, into the slot of q under tag q.
C16_PrimeAllArrays ==
  \A p \in Ranks :
    BeforeLoop(p) =>
      /\ Cardinality(issued[p]) = args.n_array
      /\ \A q \in 0..(args.n_array - 1) :
           \E t \in issued[p] :
             /\ t.dir = "get"
             /\ t.tag = q
             /\ t.blk = i0[p]
             /\ t.ea = IndexOf(q, i0[p], 0)
             /\ t.ls = 4 * NB * q
             /\ t.size = NB * si

\* a rank with three arrays stands before its first wait, its three initial
\* transfers outstanding
C16_Witness ==
  \E p \in Ranks :
    /\ BeforeLoop(p)
    /\ args.n_array = 3
    /\ Cardinality(dma[p]) = 3
    /\ dma[p] = issued[p]

\* block b of array q comes before block t.blk of array t.tag in the order
\* of the kernel: blocks in increasing order, arrays in increasing order
\* within a block
Before(p, b, q, t) ==
  /\ b >= i0[p] /\ (b - i0[p]) % NB = 0
  /\ b < t.blk \/ (b = t.blk /\ q < t.tag)

\* C17: a rank waits on and reads one block of one array per step; when it
\* reads array q for block i, the transfer of that block of that array is
\* the one newly waited on, and every block of every array that comes before
\* it (an earlier block, or the same block of a lower array) has been waited
\* on and read already.
C17_InOrder ==
  [][\A p \in Ranks :
       LET new == waited'[p] \ waited[p]
       IN  /\ Cardinality(new) <= 1
           /\ \A q \in 0..(args.n_array - 1) :
                Reads(p, q) => \E t \in new : t.tag = q /\ t.blk = i[p]
           /\ \A t \in new :
                /\ Reads(p, t.tag)
                /\ \A b \in 0..t.blk, q \in 0..(args.n_array - 1) :
                     Before(p, b, q, t) =>
                       \E u \in waited[p] : u.tag = q /\ u.blk = b]_vars

\* a rank has read the second block of the last of its three arrays, after
\* the five reads that come before it
C17_Witness ==
  \E p \in Ranks :
    /\ args.n_array = 3
    /\ Cardinality(waited[p]) = 6
    /\ pc[p] = "waitout"
    /\ i[p] = i0[p] + NB

\* the tag rank p waits on where it stands: 1<<0, 1<<r, 1<<na
AwaitedTag(p) ==
  IF pc[p] = "wait0" THEN 0
  ELSE IF pc[p] = "waitr" THEN r[p]
  ELSE args.n_array

\* C18: when every SPU keeps running and every transfer completes, every
\* rank returns; a rank that has returned from a call with 2 <= na <=
\* MAX_ARRAY has issued one outbound transfer for every block of its range,
\* ceil((i1-i0)/NB) of them; and a rank that has been called and cannot take
\* a step stands at a tag wait with a transfer of the awaited tag
\* outstanding.
C18_Terminates ==
  /\ <>(\A p \in Ranks : pc[p] = "done")
  /\ [](\A p \in Ranks :
          (pc[p] = "done" /\ ValidNa) =>
            /\ Len(puts[p]) = (i1[p] - i0[p] + NB - 1) \div NB
            /\ \A k \in 1..Len(puts[p]) : puts[p][k] = i0[p] + NB * (k - 1))
  /\ [](\A p \in Ranks :
          (pc[p] # "done" /\ ~ENABLED RankStep(p)) =>
            /\ pc[p] \in {"wait0", "waitr", "waitout"}
            /\ \E t \in dma[p] : t.tag = AwaitedTag(p))

\* every rank has returned; rank 0 had two blocks and issued two outbound
\* transfers
C18_Witness ==
  /\ \A p \in Ranks : pc[p] = "done"
  /\ ValidNa
  /\ i1[0] - i0[0] = 2 * NB
  /\ Len(puts[0]) = 2

\* C19: when a rank has returned, every inbound transfer it issued has
\* completed and has been waited on, and the only transfer of it that can
\* be outstanding is the outbound transfer of the last block it reduced.
C19_NoInboundAtReturn ==
  \A p \in Ranks :
    pc[p] = "done" =>
      /\ issued[p] \subseteq arrived[p]
      /\ issued[p] \subseteq waited[p]
      /\ Cardinality(dma[p]) <= 1
      /\ \A t \in dma[p] :
           /\ t.dir = "put"
           /\ Len(puts[p]) > 0
           /\ t.blk = puts[p][Len(puts[p])]
           /\ t.blk + NB >= i1[p]

\* a rank has returned from two blocks of three arrays while the write of
\* its second block is outstanding and the write of the first is complete
C19_Witness ==
  \E p \in Ranks :
    /\ pc[p] = "done"
    /\ args.n_array = 3
    /\ Len(puts[p]) = 2
    /\ Cardinality(issued[p]) = 6
    /\ \E t \in dma[p] : t.dir = "put" /\ t.blk = puts[p][2]
    /\ wrote[p] # {}

\* C20: a rank called with 2 <= na <= MAX_ARRAY whose range is empty has
\* returned at once: it stands at no wait, and it has issued no inbound
\* transfer and no outbound transfer, has waited on none and has written
\* nothing.
C20_EmptyRange ==
  \A p \in Ranks :
    (pc[p] # "idle" /\ ValidNa /\ i0[p] >= i1[p]) =>
      /\ pc[p] = "done"
      /\ outcome[p] = "returned"
      /\ issued[p] = {} /\ arrived[p] = {} /\ waited[p] = {}
      /\ dma[p] = {}
      /\ puts[p] = <<>>
      /\ wrote[p] = {}

\* n is a whole number of blocks: the straggler rank has returned from its
\* empty range while rank 0 is waiting for the transfers of its block
C20_Witness ==
  /\ ValidNa
  /\ args.n = NB
  /\ pc[n_pipeline] = "done"
  /\ i0[n_pipeline] = i1[n_pipeline]
  /\ pc[0] = "waitr"
  /\ dma[0] # {}

\* the vectors of main storage that transfer t reads or writes
Addr(t) == t.ea..(t.ea + t.size - 1)

\* the inbound transfers outstanding, of every rank
OutstandingGets == UNION {{t \in dma[q] : t.dir = "get"} : q \in Ranks}

\* C21: for every outbound transfer of a rank that is outstanding, the
\* inbound transfer of the same rank that read the same records of array 0
\* has completed, and no inbound transfer outstanding, of this rank or of
\* any other, reads a record the outbound transfer writes; and no inbound
\* transfer outstanding reads a record that a completed outbound transfer
\* has written (no record of array 0 is read again once its write has been
\* issued).
C21_NoRace ==
  \A p \in Ranks :
    /\ \A t \in OutstandingPuts(p) :
         /\ \E u \in arrived[p] : u.tag = 0 /\ u.blk = t.blk /\ Addr(u) = Addr(t)
         /\ \A u \in OutstandingGets : Addr(u) \cap Addr(t) = {}
    /\ \A u \in OutstandingGets : Addr(u) \cap wrote[p] = {}

\* the write of the first block of a rank is in flight while the loads of
\* its second block, of array 0 and of the last array, are outstanding
C21_Witness ==
  \E p \in Ranks :
    /\ args.n_array = 3
    /\ \E t \in OutstandingPuts(p) :
         /\ t.blk = i0[p]
         /\ \E u \in dma[p] : u.dir = "get" /\ u.tag = 0 /\ u.blk = t.blk + NB
         /\ \E u \in dma[p] : u.dir = "get" /\ u.tag = 2 /\ u.blk = t.blk + NB

====
